---- MODULE Spec2Model ----
(***************************************************************************)
(* microdrop: the audio capture engine (src/src/audio/mod.rs).             *)
(*                                                                         *)
(* Two threads are modelled.  The control thread calls the AudioEngine     *)
(* methods one at a time; start_capture and stop_capture are split at the  *)
(* one point of each where the set of live platform streams has changed    *)
(* but the method has not returned yet, so that the realtime callback can  *)
(* interleave there.  The realtime thread runs the data callback of every  *)
(* live platform stream.                                                   *)
(*                                                                         *)
(* An Option<T> is a sequence of length 0 (None) or 1 (Some).              *)
(*                                                                         *)
(* The module holds five specifications over the same variables: Spec      *)
(* (AudioEngine), ProcSpec (AudioProcessor, src/src/audio/processing.rs),  *)
(* ToggleSpec (ToggleCommand::run, src/src/cli/mod.rs), ConfigSpec         *)
(* (Config::write_default_to_path, src/src/config/mod.rs) and OutputSpec   *)
(* (OutputManager::simulate_paste, src/src/output/mod.rs).  Each leaves    *)
(* the variables of the others unchanged.                                  *)
(***************************************************************************)
EXTENDS Integers, Sequences, FiniteSets, TLC

VARIABLES
    device,         \* AudioEngine.device: Option<Device>
    config,         \* AudioEngine.config: Option<StreamConfig>
    stream,         \* AudioEngine.stream: Option<Stream>
    ring_buffer,    \* AudioEngine.ring_buffer: Option<HeapRb<f32>>, Some(contents)
    pc,             \* position of the control thread
    new_stream,     \* start_capture's local `stream` between line 138 and line 146
    live,           \* platform streams that exist (each runs its data callback)
    delivered,      \* samples the data callback was handed since the buffer was allocated
    dropped,        \* dropped-sample counter a caller can observe (nothing updates one)
    cb,             \* Option: the last data callback invocation and its side effects
    debug_enabled,  \* whether the tracing filter lets debug! events through
    call,           \* the control thread's current or last call, with its result
    stats,          \* Option: the get_stats call made since the last method call began
    processor,      \* Option<AudioProcessor>: the processor under study
    twin,           \* Option<AudioProcessor>: a second processor of the same parameters
    calls,          \* the process calls made on processor: input, state before and after, result
    twin_results,   \* the results of the same inputs, in the same order, on twin
    mix,            \* Option: the last direct downmix_to_mono call and what it returned
    session,        \* Option: how ToggleCommand::run went on after stop_capture, or ended early
    files,          \* the file system: for each path, Option of the file's content
    dirs,           \* the paths whose parent directory exists
    write_call,     \* Option: the last Config::write_default_to_path call and its result
    manager,        \* Option<OutputManager>: whether it has a clipboard and an enigo
    keys_down,      \* the keys the platform holds pressed
    clipboard_text, \* Option: the text on the clipboard
    paste_call      \* Option: the last simulate_paste call and its result

\* The engine's variables, the processor's, and those of the other modules.
evars == <<device, config, stream, ring_buffer, pc, new_stream, live, delivered,
           dropped, cb, debug_enabled, call, stats>>
pvars == <<processor, twin, calls, twin_results, mix>>
cvars == <<files, dirs, write_call>>
ovars == <<manager, keys_down, clipboard_text, paste_call>>
xvars == <<session, cvars, ovars>>
vars == <<evars, pvars, xvars>>

(***************************************************************************)
(* Bounds of the model.                                                    *)
(***************************************************************************)
\* The ring buffer's capacity, scaled down from 1024 * 1024 samples.
ScaledCapacity == 2
\* Samples the callbacks deliver to one capture buffer at most.
MaxDelivered == 3
\* Longest block one callback invocation delivers.
MaxBlock == 2
RING_BUFFER_SIZE == ScaledCapacity

None == <<>>
Some(x) == <<x>>

\* The block of n samples that follows the first k delivered: a sample is
\* identified by its arrival number, so that order and identity can be told.
Block(k, n) == [i \in 1..n |-> k + i]

\* The slices a caller can hand to get_stats: one of each length 0..MaxBlock.
SampleSlices == {Block(0, n) : n \in 0..MaxBlock}

(***************************************************************************)
(* The host: its input devices in enumeration order, their names and the   *)
(* configurations each supports (max_sample_rate, channels).               *)
(***************************************************************************)
HostDevices == <<1, 2, 3, 4, 5>>

DeviceName(d) ==
    CASE d = 1 -> "mic" [] d = 2 -> "line" [] d = 3 -> "mic" [] OTHER -> "usb"

SupportedConfigs(d) ==
    CASE d = 1 -> << [max_sample_rate |-> 8000,  channels |-> 1],
                     [max_sample_rate |-> 44100, channels |-> 2],
                     [max_sample_rate |-> 48000, channels |-> 1],
                     [max_sample_rate |-> 48000, channels |-> 2] >>
      [] d = 2 -> << [max_sample_rate |-> 8000,  channels |-> 1] >>
      [] d = 3 -> << [max_sample_rate |-> 16000, channels |-> 1] >>
      [] d = 4 -> << [max_sample_rate |-> 44100, channels |-> 1],
                     [max_sample_rate |-> 96000, channels |-> 2],
                     [max_sample_rate |-> 15999, channels |-> 1],
                     [max_sample_rate |-> 96000, channels |-> 1],
                     [max_sample_rate |-> 16000, channels |-> 2] >>
      [] OTHER -> << >>

RequestedNames == {"mic", "line", "usb", "absent"}

\* Handles of the platform's input streams; a handle is reused once its stream is gone.
StreamIds == {1, 2}

(***************************************************************************)
(* Results of the calls.                                                   *)
(***************************************************************************)
Fields == [device |-> device, config |-> config, stream |-> stream,
           ring_buffer |-> ring_buffer]

\* A call that has been entered and has not returned.
Running(op) == [op |-> op, pre |-> Fields, status |-> "running", err |-> "",
                samples |-> <<>>]

\* Ok(value): stop_capture's value is the sample vector, the others return ().
Ok(op, pre, samples) == [op |-> op, pre |-> pre, status |-> "Ok", err |-> "",
                         samples |-> samples]

\* Err(MicrodropError::Audio(msg)).
Err(op, pre, msg) == [op |-> op, pre |-> pre, status |-> "Err", err |-> msg,
                      samples |-> <<>>]

Init ==
    /\ device = None
    /\ config = None
    /\ stream = None
    /\ ring_buffer = None
    /\ pc = "idle"
    /\ new_stream = None
    /\ live = {}
    /\ delivered = <<>>
    /\ dropped = 0
    /\ cb = None
    /\ debug_enabled \in BOOLEAN
    /\ call = Ok("new", [device |-> None, config |-> None, stream |-> None,
                        ring_buffer |-> None], <<>>)
    /\ stats = None
    /\ session = <<>>
    /\ files = [path \in {"home/.config/microdrop/config.toml", "tmp/config.toml"}
                  |-> <<>>]
    /\ dirs = {}
    /\ write_call = <<>>
    /\ manager = <<>>
    /\ keys_down = {}
    /\ clipboard_text = <<>>
    /\ paste_call = <<>>
    /\ processor = <<>>
    /\ twin = <<>>
    /\ calls = <<>>
    /\ twin_results = <<>>
    /\ mix = <<>>

(***************************************************************************)
(* select_device                                                           *)
(***************************************************************************)
\* Mutant: the last device of that name is taken.
FirstNamed_last(name) ==
    LET hits == {i \in 1..Len(HostDevices) : DeviceName(HostDevices[i]) = name}
    IN  IF hits = {} THEN None
        ELSE Some(HostDevices[CHOOSE i \in hits : \A j \in hits : i >= j])

\* devices.filter(|d| d.name() == name).next()
FirstNamed(name) ==
    LET hits == {i \in 1..Len(HostDevices) : DeviceName(HostDevices[i]) = name}
    IN  IF hits = {} THEN None
        ELSE Some(HostDevices[CHOOSE i \in hits : \A j \in hits : i <= j])

\* What the host answers to the query the call makes: with a name, whether
\* input_devices() succeeds; without one, which device, if any, is the default.
HostAnswers(device_name) ==
    IF device_name # None
    THEN {[enumerated |-> e, default_input_device |-> None] : e \in BOOLEAN}
    ELSE {[enumerated |-> TRUE, default_input_device |-> d] :
             d \in {None} \cup {Some(HostDevices[i]) : i \in 1..Len(HostDevices)}}

\* The call record of select_device also keeps the argument and the host's answer.
Asked(c, device_name, host) == c @@ [device_name |-> device_name, host |-> host]

select_device ==
    /\ pc = "idle"
    /\ \E device_name \in {None} \cup {Some(n) : n \in RequestedNames} :
       \E host \in HostAnswers(device_name) :
          LET found == IF device_name # None THEN FirstNamed(device_name[1])
                       ELSE host.default_input_device
              msg == IF device_name # None
                     THEN (IF ~host.enumerated THEN "Failed to enumerate devices"
                           ELSE "Audio device not found")
                     ELSE "No default input device available"
              failed == \/ (device_name # None /\ ~host.enumerated)
                        \/ found = None
          IN  IF failed
              THEN /\ call' = Asked(Err("select_device", Fields, msg), device_name, host)
                   /\ UNCHANGED device
              ELSE /\ device' = found
                   /\ call' = Asked(Ok("select_device", Fields, <<>>), device_name, host)
    /\ stats' = None
    /\ UNCHANGED <<config, stream, ring_buffer, pc, new_stream, live, delivered,
                   dropped, cb, debug_enabled>>
    /\ UNCHANGED <<pvars, xvars>>

(***************************************************************************)
(* configure_stream                                                        *)
(***************************************************************************)
\* Mutant: a configuration of the same rate replaces the best one (>= for >).
RECURSIVE ConfigLoop_last_wins(_, _, _, _)
ConfigLoop_last_wins(configs, i, best_config, best_sample_rate) ==
    IF i > Len(configs) THEN best_config
    ELSE LET sample_rate == configs[i].max_sample_rate
         IN  IF sample_rate >= 16000 /\ sample_rate >= best_sample_rate
             THEN ConfigLoop_last_wins(configs, i + 1,
                             Some([sample_rate |-> sample_rate,
                                   channels |-> configs[i].channels]),
                             sample_rate)
             ELSE ConfigLoop_last_wins(configs, i + 1, best_config, best_sample_rate)

\* The loop of lines 102-111 from index i on, with the best configuration so far.
RECURSIVE ConfigLoop(_, _, _, _)
ConfigLoop(configs, i, best_config, best_sample_rate) ==
    IF i > Len(configs) THEN best_config
    ELSE LET sample_rate == configs[i].max_sample_rate
         IN  IF sample_rate >= 16000 /\ sample_rate > best_sample_rate
             THEN ConfigLoop(configs, i + 1,
                             Some([sample_rate |-> sample_rate,
                                   channels |-> configs[i].channels]),
                             sample_rate)
             ELSE ConfigLoop(configs, i + 1, best_config, best_sample_rate)

configure_stream ==
    /\ pc = "idle"
    /\ \E queried \in BOOLEAN :
          IF device = None
          THEN /\ call' = Err("configure_stream", Fields, "No device selected")
               /\ UNCHANGED config
          ELSE IF ~queried
          THEN /\ call' = Err("configure_stream", Fields, "Failed to get supported configs")
               /\ UNCHANGED config
          ELSE LET best_config == ConfigLoop(SupportedConfigs(device[1]), 1, None, 0)
               IN  IF best_config = None
                   THEN /\ call' = Err("configure_stream", Fields,
                                       "No suitable audio configuration found")
                        /\ UNCHANGED config
                   ELSE /\ config' = best_config
                        /\ call' = Ok("configure_stream", Fields, <<>>)
    /\ stats' = None
    /\ UNCHANGED <<device, stream, ring_buffer, pc, new_stream, live, delivered,
                   dropped, cb, debug_enabled>>
    /\ UNCHANGED <<pvars, xvars>>

(***************************************************************************)
(* start_capture                                                           *)
(***************************************************************************)
\* An allocation that hands out a buffer with a sample already in it.
NewRingBuffer_dirty == Some(<<0>>)

\* HeapRb::<f32>::new(RING_BUFFER_SIZE): an empty buffer.
NewRingBuffer == Some(<<>>)

\* Lines 122-143: the checks, the buffer, build_stream and play.  The platform
\* decides whether the stream can be built and whether it starts.
start_capture ==
    /\ pc = "idle"
    /\ \E platform \in {"build fails", "play fails", "plays"} :
          IF device = None
          THEN /\ call' = Err("start_capture", Fields, "No device selected")
               /\ UNCHANGED <<ring_buffer, delivered, live, new_stream, pc>>
          ELSE IF config = None
          THEN /\ call' = Err("start_capture", Fields, "No configuration set")
               /\ UNCHANGED <<ring_buffer, delivered, live, new_stream, pc>>
          ELSE /\ ring_buffer' = NewRingBuffer
               /\ delivered' = <<>>
               /\ IF platform = "build fails" \/ StreamIds \subseteq live
                  THEN /\ call' = Err("start_capture", Fields, "Failed to build input stream")
                       /\ UNCHANGED <<live, new_stream, pc>>
                  ELSE IF platform = "play fails"
                  THEN \* the stream built at line 138 is dropped by the return
                       /\ call' = Err("start_capture", Fields, "Failed to start stream")
                       /\ UNCHANGED <<live, new_stream, pc>>
                  ELSE LET s == CHOOSE x \in StreamIds \ live :
                                    \A y \in StreamIds \ live : x <= y
                       IN  /\ live' = live \cup {s}
                           /\ new_stream' = Some(s)
                           /\ call' = Running("start_capture")
                           /\ pc' = "start_capture_store"
    /\ stats' = None
    /\ UNCHANGED <<device, config, stream, dropped, cb, debug_enabled>>
    /\ UNCHANGED <<pvars, xvars>>

\* Mutant: the stream that line 146 replaces is kept alive instead of dropped.
start_capture_store_leak ==
    /\ pc = "start_capture_store"
    /\ stream' = new_stream
    /\ new_stream' = None
    /\ call' = Ok("start_capture", call.pre, <<>>)
    /\ pc' = "idle"
    /\ UNCHANGED <<device, config, ring_buffer, live, delivered, dropped, cb,
                   debug_enabled, stats>>
    /\ UNCHANGED <<pvars, xvars>>

\* Lines 145-147: self.stream = Some(stream) drops the stream it replaces.
start_capture_store ==
    /\ pc = "start_capture_store"
    /\ live' = live \ {stream[i] : i \in 1..Len(stream)}
    /\ stream' = new_stream
    /\ new_stream' = None
    /\ call' = Ok("start_capture", call.pre, <<>>)
    /\ pc' = "idle"
    /\ UNCHANGED <<device, config, ring_buffer, delivered, dropped, cb,
                   debug_enabled, stats>>
    /\ UNCHANGED <<pvars, xvars>>

(***************************************************************************)
(* The data callback of build_stream, run by the platform for a live       *)
(* stream.  It logs the block's length at debug level and stores nothing.  *)
(***************************************************************************)
data_callback ==
    /\ \E s \in live, n \in 1..MaxBlock :
       LET data == Block(Len(delivered), n)
       IN /\ Len(delivered) + Len(data) <= MaxDelivered
          /\ delivered' = delivered \o data
          /\ cb' = Some([stream |-> s, len |-> Len(data),
                         effects |-> IF debug_enabled THEN {"log"} ELSE {}])
    /\ UNCHANGED <<device, config, stream, ring_buffer, pc, new_stream, live,
                   dropped, debug_enabled, call, stats>>
    /\ UNCHANGED <<pvars, xvars>>

(***************************************************************************)
(* stop_capture                                                            *)
(***************************************************************************)
\* Mutant: the stream is taken out of the engine but not dropped before the drain.
stop_capture_late_drop ==
    /\ pc = "idle"
    /\ stream' = None
    /\ call' = Running("stop_capture")
    /\ pc' = "stop_capture_drain"
    /\ stats' = None
    /\ UNCHANGED <<device, config, ring_buffer, new_stream, live, delivered,
                   dropped, cb, debug_enabled>>
    /\ UNCHANGED <<pvars, xvars>>

\* Lines 150-154: self.stream.take() and drop(stream).
stop_capture ==
    /\ pc = "idle"
    /\ live' = live \ {stream[i] : i \in 1..Len(stream)}
    /\ stream' = None
    /\ call' = Running("stop_capture")
    /\ pc' = "stop_capture_drain"
    /\ stats' = None
    /\ UNCHANGED <<device, config, ring_buffer, new_stream, delivered, dropped,
                   cb, debug_enabled>>
    /\ UNCHANGED <<pvars, xvars>>

\* Lines 156-161: the samples handed back, and the buffer released.
stop_capture_drain ==
    /\ pc = "stop_capture_drain"
    /\ LET samples == <<>>
       IN  call' = Ok("stop_capture", call.pre, samples)
    /\ ring_buffer' = None
    /\ pc' = "idle"
    /\ UNCHANGED <<device, config, stream, new_stream, live, delivered, dropped,
                   cb, debug_enabled, stats>>
    /\ UNCHANGED <<pvars, xvars>>

(***************************************************************************)
(* get_stats                                                               *)
(***************************************************************************)
\* The AudioStats of lines 164-179 for engine configuration cfg; the duration
\* samples.len() / (sample_rate * channels) seconds is kept as the fraction.
\* Stats whose duration counts every sample as a frame.
AudioStats_samples_as_frames(cfg, samples) ==
    LET sample_rate == IF cfg # None THEN cfg[1].sample_rate ELSE 44100
        channels == IF cfg # None THEN cfg[1].channels ELSE 1
    IN  [duration |-> [num |-> Len(samples), den |-> sample_rate],
         sample_count |-> Len(samples),
         sample_rate |-> sample_rate,
         channels |-> channels,
         format |-> "f32"]

AudioStats(cfg, samples) ==
    LET sample_rate == IF cfg # None THEN cfg[1].sample_rate ELSE 44100
        channels == IF cfg # None THEN cfg[1].channels ELSE 1
    IN  [duration |-> [num |-> Len(samples), den |-> sample_rate * channels],
         sample_count |-> Len(samples),
         sample_rate |-> sample_rate,
         channels |-> channels,
         format |-> "f32"]

\* get_stats borrows the engine immutably; the caller passes any slice, the
\* toggle command the one stop_capture returned.
get_stats ==
    /\ pc = "idle"
    /\ \E samples \in SampleSlices \cup {call.samples} :
          stats' = Some([samples |-> samples, value |-> AudioStats(config, samples)])
    /\ UNCHANGED <<device, config, stream, ring_buffer, pc, new_stream, live,
                   delivered, dropped, cb, debug_enabled, call>>
    /\ UNCHANGED <<pvars, xvars>>

Next ==
    \/ select_device
    \/ configure_stream
    \/ start_capture
    \/ start_capture_store
    \/ data_callback
    \/ stop_capture
    \/ stop_capture_drain
    \/ get_stats

Spec == Init /\ [][Next]_vars

(***************************************************************************)
(* Vocabulary of the properties.                                           *)
(***************************************************************************)
Returned(op) == call.op = op /\ call.status # "running"

\* The engine is in the Capturing state: it holds a stream.
Capturing(f) == f.stream # None

\* The call was made out of the state machine's order.
OutOfOrder(c) ==
    \/ c.op = "configure_stream" /\ c.pre.device = None
    \/ c.op = "start_capture"
         /\ (c.pre.device = None \/ c.pre.config = None \/ Capturing(c.pre))
    \/ c.op = "stop_capture" /\ ~Capturing(c.pre)

\* The errors with which the engine rejects a call for the state it is in.
InvalidStateTransition(c) ==
    c.status = "Err" /\ c.err \in {"No device selected", "No configuration set"}

Min(a, b) == IF a <= b THEN a ELSE b
Max(a, b) == IF a >= b THEN a ELSE b

\* Of the samples delivered, those a buffer of RING_BUFFER_SIZE that drops the
\* incoming samples when full has kept.
Kept == SubSeq(delivered, 1, Min(Len(delivered), RING_BUFFER_SIZE))

\* A step of the realtime thread: the callback was handed a block.
CallbackStep == Len(delivered') > Len(delivered)

(***************************************************************************)
(* C1: an operation invoked out of the required state order returns an     *)
(* InvalidStateTransition error and leaves device, config, stream and the  *)
(* capture buffer as they were before the call.                            *)
(* Violated: stop_capture without a capture, and start_capture during one, *)
(* return Ok.                                                              *)
(***************************************************************************)
C1_OutOfOrderRejected ==
    (call.status # "running" /\ OutOfOrder(call))
        => (InvalidStateTransition(call) /\ Fields = call.pre)

(***************************************************************************)
(* C2: when select_device, configure_stream or start_capture returns an    *)
(* error, the engine is in exactly the state it was in before the call.    *)
(* Violated: a start_capture that fails in build_stream or play has        *)
(* already stored a new ring buffer.                                       *)
(***************************************************************************)
C2_FailClosed ==
    (call.status = "Err"
       /\ call.op \in {"select_device", "configure_stream", "start_capture"})
        => Fields = call.pre

(***************************************************************************)
(* C3: stop_capture called while capturing returns, in arrival order,      *)
(* exactly the samples the callback delivered and that were not dropped    *)
(* for overflow.                                                           *)
(* Violated: it returns the empty vector whatever was delivered.           *)
(***************************************************************************)
C3_StopReturnsDelivered ==
    (Returned("stop_capture") /\ Capturing(call.pre)) => call.samples = Kept

(***************************************************************************)
(* C4: the dropped-sample counter counts exactly the samples that did not  *)
(* fit into the capture buffer: with nothing read during the capture, that *)
(* is what was delivered beyond RING_BUFFER_SIZE.                          *)
(* Violated: no counter is kept, a caller observes 0.                      *)
(***************************************************************************)
C4_DroppedCountsExcess ==
    ring_buffer # None => dropped = Max(0, Len(delivered) - RING_BUFFER_SIZE)

C6_LossObservableInStats ==
    (/\ Returned("stop_capture")
     /\ Capturing(call.pre)
     /\ stats # None
     /\ stats[1].samples = call.samples
     /\ stats[1].value = AudioStats(config, <<>>))
        => Len(delivered) = Len(call.samples)

(***************************************************************************)
(* C7: after stop_capture has returned, the data callback is not invoked   *)
(* again: no step of the realtime thread starts in a state in which        *)
(* stop_capture is the last call and has returned.                         *)
(***************************************************************************)
C7_NoCallbackAfterStop ==
    [][Returned("stop_capture") => ~CallbackStep]_vars

\* A capture during which the callback ran has been stopped.
C7_Witness ==
    /\ Returned("stop_capture")
    /\ Capturing(call.pre)
    /\ delivered # <<>>
    /\ cb # None

(***************************************************************************)
(* C8: the control thread is at the drain of the capture buffer only when  *)
(* no platform stream exists, so that a callback (the producer) and the    *)
(* drain (the consumer) are never enabled in the same state.               *)
(***************************************************************************)
C8_DrainAfterTeardown ==
    pc = "stop_capture_drain" => (live = {} /\ ~ENABLED data_callback)

\* The control thread is at the drain of a capture during which the callback ran.
C8_Witness ==
    /\ pc = "stop_capture_drain"
    /\ Capturing(call.pre)
    /\ delivered # <<>>
    /\ Len(delivered) < MaxDelivered

(***************************************************************************)
(* C9: at most one platform input stream exists per engine at any moment,  *)
(* and between calls one exists exactly while the engine is Capturing.     *)
(* Violated: start_capture during a capture builds and starts a second     *)
(* stream before it drops the first.                                       *)
(***************************************************************************)
C9_OneStream ==
    /\ Cardinality(live) <= 1
    /\ pc = "idle" => (live # {} <=> Capturing(Fields))

(***************************************************************************)
(* C10: an invocation of the data callback has exactly one side effect,    *)
(* the push of its block into the capture buffer; it does not log.         *)
(* Violated: it pushes nothing, and it emits a debug! log event.           *)
(***************************************************************************)
C10_CallbackOnlyPushes ==
    cb # None => cb[1].effects = {"push"}

(***************************************************************************)
(* C11: configure_stream on a selected device succeeds if and only if some *)
(* supported configuration has a sample rate of at least 16000 Hz; on      *)
(* success the recorded config is the one of the highest such rate, the    *)
(* first in enumeration order among equal rates; on failure the error is   *)
(* NoSuitableConfig and the recorded config is unchanged.                  *)
(***************************************************************************)
\* The indices of the configurations of at least 16000 Hz.
Suitable(configs) == {i \in 1..Len(configs) : configs[i].max_sample_rate >= 16000}

\* The first index among those of the highest suitable rate.
BestIndex(configs) ==
    CHOOSE i \in Suitable(configs) :
        \A j \in Suitable(configs) :
            \/ configs[j].max_sample_rate < configs[i].max_sample_rate
            \/ (configs[j].max_sample_rate = configs[i].max_sample_rate /\ i <= j)

\* What the claim says of a configure_stream call that has returned.
NegotiatedAsClaimed ==
    LET configs == SupportedConfigs(call.pre.device[1])
    IN  /\ call.status = "Ok" <=> Suitable(configs) # {}
        /\ call.status = "Ok" =>
              config = Some([sample_rate |-> configs[BestIndex(configs)].max_sample_rate,
                             channels |-> configs[BestIndex(configs)].channels])
        /\ call.status = "Err" =>
              (call.err = "No suitable audio configuration found"
                 /\ config = call.pre.config)

\* The claim as stated.  Violated: when the platform cannot list the device's
\* configurations the call fails although a suitable configuration exists.
C11_Original ==
    (Returned("configure_stream") /\ call.pre.device # None) => NegotiatedAsClaimed

\* The claim as amended: it holds when supported_input_configs() answers; when
\* that query fails the call returns its error and the config is unchanged.
C11_Negotiation ==
    (Returned("configure_stream") /\ call.pre.device # None) =>
        IF call.err = "Failed to get supported configs"
        THEN call.status = "Err" /\ config = call.pre.config
        ELSE NegotiatedAsClaimed

\* A negotiation among equal highest rates, with lower rates before and after.
C11_Witness ==
    /\ Returned("configure_stream")
    /\ call.status = "Ok"
    /\ call.pre.device = Some(4)
    /\ config = Some([sample_rate |-> 96000, channels |-> 2])

(***************************************************************************)
(* C12: select_device(Some(name)) records the first input device whose     *)
(* name equals name and fails with DeviceNotFound when there is none;      *)
(* select_device(None) records the default input device and fails with     *)
(* NoDefaultDevice when there is none; on failure the device is unchanged. *)
(***************************************************************************)
\* The enumeration indices of the devices called name.
Named(name) == {i \in 1..Len(HostDevices) : DeviceName(HostDevices[i]) = name}

\* What the claim says of a select_device call that has returned.
SelectedAsClaimed ==
    IF call.device_name # None
    THEN LET hits == Named(call.device_name[1])
         IN  IF hits # {}
             THEN /\ call.status = "Ok"
                  /\ \E i \in hits : /\ \A j \in hits : i <= j
                                     /\ device = Some(HostDevices[i])
             ELSE /\ call.status = "Err"
                  /\ call.err = "Audio device not found"
                  /\ device = call.pre.device
    ELSE IF call.host.default_input_device # None
         THEN call.status = "Ok" /\ device = call.host.default_input_device
         ELSE /\ call.status = "Err"
              /\ call.err = "No default input device available"
              /\ device = call.pre.device

\* The claim as stated.  Violated: when the platform cannot enumerate its
\* input devices the call fails although a device of that name exists.
C12_Original == Returned("select_device") => SelectedAsClaimed

\* The claim as amended: with a name it holds when input_devices() answers;
\* when that enumeration fails the call returns its error, device unchanged.
C12_Selection ==
    Returned("select_device") =>
        IF call.device_name # None /\ ~call.host.enumerated
        THEN /\ call.status = "Err"
             /\ call.err = "Failed to enumerate devices"
             /\ device = call.pre.device
        ELSE SelectedAsClaimed

\* A name that two devices carry was asked for while another device was selected.
C12_Witness ==
    /\ Returned("select_device")
    /\ call.device_name = Some("mic")
    /\ call.status = "Ok"
    /\ call.pre.device = Some(4)

(***************************************************************************)
(* C13: once negotiated, the config is never changed for the rest of the   *)
(* session; in particular no step changes it while a capture is running.   *)
(* Violated: select_device and configure_stream are accepted during a      *)
(* capture and record another device's config.                             *)
(***************************************************************************)
C13_ConfigImmutable ==
    [][Capturing(Fields) => config' = config]_vars

(***************************************************************************)
(* C14: between calls the fields form a valid session state: a stream only *)
(* with a device, a config and a capture buffer; a capture buffer only     *)
(* with a stream; a config only with a device.                             *)
(* Violated: a failed start_capture leaves a capture buffer and no stream. *)
(***************************************************************************)
C14_ValidSessionState ==
    pc = "idle" =>
        /\ stream # None => (device # None /\ config # None /\ ring_buffer # None)
        /\ ring_buffer # None => stream # None
        /\ config # None => device # None

(***************************************************************************)
(* AudioProcessor (src/src/audio/processing.rs).                           *)
(*                                                                         *)
(* A sample is an integer.  The mean of a frame is kept as the exact       *)
(* fraction sum / channels; the rounding of f32 arithmetic is not          *)
(* modelled.  The resampler is rubato's SincFixedIn as processing.rs uses  *)
(* it: built for a number of channels and a chunk size, it rejects a call  *)
(* with another number of channels or with fewer frames than one chunk,    *)
(* and otherwise consumes one chunk.  An output sample is named by the     *)
(* input samples it interpolates and its phase between them.               *)
(***************************************************************************)
\* The resampler's chunk size, scaled down from 1024 frames.
ScaledChunk == 2
\* Longest input of one process or downmix_to_mono call.
MaxInput == 5
\* Process calls made on one processor.
MaxCalls == 3
\* Largest channel count a processor is built with.
MaxChannels == 2

TARGET_SAMPLE_RATE == 16000
CHUNK_SIZE == ScaledChunk

\* The input rates a processor is built with.
InputRates == {8000, 16000, 24000, 32000}

\* The k-th sample of the stream the process calls are cut from.
Sample(k) == ((3 * k) % 5) - 2

\* The n samples that follow the first k of that stream.
Input(k, n) == [i \in 1..n |-> Sample(k + i)]

RECURSIVE SeqsOver(_, _)
SeqsOver(S, n) ==
    IF n = 0 THEN {<<>>} ELSE {Append(s, x) : s \in SeqsOver(S, n - 1), x \in S}

\* The interleaved buffers handed to downmix_to_mono directly.
Buffers == UNION {SeqsOver({-1, 0, 2}, n) : n \in 0..MaxInput}

RECURSIVE SumSeq(_)
SumSeq(s) == IF s = <<>> THEN 0 ELSE Head(s) + SumSeq(Tail(s))

(***************************************************************************)
(* rubato::SincFixedIn, as constructed at lines 29-35 and called at 71-76. *)
(***************************************************************************)
\* Time is counted in half input samples; an output sample is due every
\* 1 / resample_ratio input samples.  The ratio is the exact fraction
\* num / den.
Ticks == 2

\* A step taken from the inverse of the ratio.
Step_inverse(resample_ratio) == (Ticks * resample_ratio.num) \div resample_ratio.den

Step(resample_ratio) == (Ticks * resample_ratio.den) \div resample_ratio.num

\* SincFixedIn::new: a ratio that is not positive is refused.
SincFixedIn_new(resample_ratio, chunk_size, nbr_channels) ==
    IF resample_ratio.num <= 0
    THEN [status |-> "Err", err |-> "invalid resample_ratio", value |-> <<>>]
    ELSE [status |-> "Ok", err |-> "",
          value |-> [nbr_channels |-> nbr_channels,
                     chunk_size |-> chunk_size,
                     step |-> Step(resample_ratio),
                     idx |-> 0,
                     history |-> [c \in 1..nbr_channels |-> <<0>>]]]

\* The output positions, in ticks from the start of the chunk, of one chunk.
OutputCount(r) ==
    IF r.idx >= Ticks * r.chunk_size THEN 0
    ELSE (Ticks * r.chunk_size - r.idx + r.step - 1) \div r.step

\* One channel's output for its chunk: each sample interpolates the two
\* input samples around its position.
ChannelOutput(r, past, chunk) ==
    LET combined == past \o chunk
    IN  [j \in 1..OutputCount(r) |->
            LET pos == r.idx + (j - 1) * r.step
            IN  [frac |-> pos % Ticks,
                 taps |-> SubSeq(combined, pos \div Ticks + 1, pos \div Ticks + 2)]]

\* Resampler::process(&wave_in, None): the result and the resampler after it.
SincFixedIn_process(r, wave_in) ==
    IF Len(wave_in) # r.nbr_channels
    THEN [status |-> "Err", err |-> "wrong number of input channels",
          out |-> <<>>, resampler |-> r]
    ELSE IF \E c \in 1..Len(wave_in) : Len(wave_in[c]) < r.chunk_size
    THEN [status |-> "Err", err |-> "insufficient input buffer size",
          out |-> <<>>, resampler |-> r]
    ELSE LET chunk(c) == SubSeq(wave_in[c], 1, r.chunk_size)
         IN  [status |-> "Ok", err |-> "",
              out |-> [c \in 1..r.nbr_channels |->
                          ChannelOutput(r, r.history[c], chunk(c))],
              resampler |->
                  [r EXCEPT !.idx = r.idx + OutputCount(r) * r.step
                                      - Ticks * r.chunk_size,
                            !.history = [c \in 1..r.nbr_channels |->
                                            <<chunk(c)[r.chunk_size]>>]]]

(***************************************************************************)
(* AudioProcessor::new                                                     *)
(***************************************************************************)
\* A constructor that builds the filter only for rates above the target.
AudioProcessor_new_above_only(input_sample_rate, input_channels) ==
    LET built == SincFixedIn_new([num |-> TARGET_SAMPLE_RATE,
                                  den |-> input_sample_rate],
                                 CHUNK_SIZE, input_channels)
        made(resampler) == [status |-> "Ok", err |-> "",
                            value |-> [resampler |-> resampler,
                                       input_sample_rate |-> input_sample_rate,
                                       input_channels |-> input_channels]]
    IN  IF input_sample_rate > TARGET_SAMPLE_RATE
        THEN IF built.status = "Err"
             THEN [status |-> "Err",
                   err |-> "Failed to create resampler: " \o built.err,
                   value |-> <<>>]
             ELSE made(Some(built.value))
        ELSE made(None)

\* A constructor that builds the filter for every rate.
AudioProcessor_new_always(input_sample_rate, input_channels) ==
    LET built == SincFixedIn_new([num |-> TARGET_SAMPLE_RATE,
                                  den |-> input_sample_rate],
                                 CHUNK_SIZE, input_channels)
        made(resampler) == [status |-> "Ok", err |-> "",
                            value |-> [resampler |-> resampler,
                                       input_sample_rate |-> input_sample_rate,
                                       input_channels |-> input_channels]]
    IN  IF TRUE
        THEN IF built.status = "Err"
             THEN [status |-> "Err",
                   err |-> "Failed to create resampler: " \o built.err,
                   value |-> <<>>]
             ELSE made(Some(built.value))
        ELSE made(None)

\* A constructor that hands out the state of the processor already in use
\* when there is one.
AudioProcessor_new_shared(input_sample_rate, input_channels) ==
    LET built == SincFixedIn_new([num |-> TARGET_SAMPLE_RATE,
                                  den |-> input_sample_rate],
                                 CHUNK_SIZE, input_channels)
        made(resampler) == [status |-> "Ok", err |-> "",
                            value |-> [resampler |-> resampler,
                                       input_sample_rate |-> input_sample_rate,
                                       input_channels |-> input_channels]]
    IN  IF processor # None
        THEN [status |-> "Ok", err |-> "", value |-> processor[1]]
        ELSE IF input_sample_rate # TARGET_SAMPLE_RATE
        THEN IF built.status = "Err"
             THEN [status |-> "Err",
                   err |-> "Failed to create resampler: " \o built.err,
                   value |-> <<>>]
             ELSE made(Some(built.value))
        ELSE made(None)

\* Ok(Self) with the filter built when the rate is not the target, or the
\* filter's construction error.
AudioProcessor_new(input_sample_rate, input_channels) ==
    LET built == SincFixedIn_new([num |-> TARGET_SAMPLE_RATE,
                                  den |-> input_sample_rate],
                                 CHUNK_SIZE, input_channels)
        made(resampler) == [status |-> "Ok", err |-> "",
                            value |-> [resampler |-> resampler,
                                       input_sample_rate |-> input_sample_rate,
                                       input_channels |-> input_channels]]
    IN  IF input_sample_rate # TARGET_SAMPLE_RATE
        THEN IF built.status = "Err"
             THEN [status |-> "Err",
                   err |-> "Failed to create resampler: " \o built.err,
                   value |-> <<>>]
             ELSE made(Some(built.value))
        ELSE made(None)

(***************************************************************************)
(* AudioProcessor::downmix_to_mono                                         *)
(***************************************************************************)
\* A downmix whose frames start one sample, not one frame, apart.
downmix_to_mono_unstrided(self, interleaved) ==
    LET channels == self.input_channels
        frame_count == Len(interleaved) \div channels
    IN  [frame_idx \in 1..frame_count |->
            LET start == frame_idx - 1
                end == start + channels
            IN  [num |-> SumSeq(SubSeq(interleaved, start + 1, end)),
                 den |-> channels]]

downmix_to_mono(self, interleaved) ==
    LET channels == self.input_channels
        frame_count == Len(interleaved) \div channels
    IN  [frame_idx \in 1..frame_count |->
            LET start == (frame_idx - 1) * channels
                end == start + channels
            IN  [num |-> SumSeq(SubSeq(interleaved, start + 1, end)),
                 den |-> channels]]

(***************************************************************************)
(* AudioProcessor::process: the result and the processor after the call.   *)
(***************************************************************************)
\* A process that hands every input, the empty one too, to the filter.
AudioProcessor_process_unguarded(self, input) ==
    LET mono_samples == IF self.input_channels > 1
                        THEN downmix_to_mono(self, input)
                        ELSE input
    IN  IF self.resampler # None
        THEN LET r == SincFixedIn_process(self.resampler[1], <<mono_samples>>)
             IN  IF r.status = "Err"
                 THEN [result |-> [status |-> "Err",
                                   err |-> "Resampling failed: " \o r.err,
                                   out |-> <<>>],
                       self |-> [self EXCEPT !.resampler = Some(r.resampler)]]
                 ELSE [result |-> [status |-> "Ok", err |-> "",
                                   out |-> IF r.out = <<>> THEN <<>> ELSE r.out[1]],
                       self |-> [self EXCEPT !.resampler = Some(r.resampler)]]
        ELSE [result |-> [status |-> "Ok", err |-> "", out |-> mono_samples],
              self |-> self]

AudioProcessor_process(self, input) ==
    IF input = <<>>
    THEN [result |-> [status |-> "Ok", err |-> "", out |-> <<>>], self |-> self]
    ELSE LET mono_samples == IF self.input_channels > 1
                             THEN downmix_to_mono(self, input)
                             ELSE input
         IN  IF self.resampler # None /\ mono_samples # <<>>
             THEN LET r == SincFixedIn_process(self.resampler[1], <<mono_samples>>)
                  IN  IF r.status = "Err"
                      THEN [result |-> [status |-> "Err",
                                        err |-> "Resampling failed: " \o r.err,
                                        out |-> <<>>],
                            self |-> [self EXCEPT !.resampler = Some(r.resampler)]]
                      ELSE [result |-> [status |-> "Ok", err |-> "",
                                        out |-> IF r.out = <<>> THEN <<>> ELSE r.out[1]],
                            self |-> [self EXCEPT !.resampler = Some(r.resampler)]]
             ELSE [result |-> [status |-> "Ok", err |-> "", out |-> mono_samples],
                   self |-> self]

(***************************************************************************)
(* The calls made on the processors.                                       *)
(***************************************************************************)
\* The samples the process calls have consumed from the stream.
Fed == SumSeq([k \in 1..Len(calls) |-> Len(calls[k].input)])

proc_new ==
    /\ processor = None
    /\ \E input_sample_rate \in InputRates, input_channels \in 0..MaxChannels :
          LET made == AudioProcessor_new(input_sample_rate, input_channels)
          IN  /\ made.status = "Ok"
              /\ processor' = Some(made.value)
    /\ UNCHANGED <<twin, calls, twin_results, mix>>
    /\ UNCHANGED <<evars, xvars>>

\* A second processor is constructed with the parameters of the first.
twin_new ==
    /\ processor # None
    /\ twin = None
    /\ LET made == AudioProcessor_new(processor[1].input_sample_rate,
                                      processor[1].input_channels)
       IN  /\ made.status = "Ok"
           /\ twin' = Some(made.value)
    /\ UNCHANGED <<processor, calls, twin_results, mix>>
    /\ UNCHANGED <<evars, xvars>>

proc_process ==
    /\ processor # None
    /\ Len(calls) < MaxCalls
    /\ \E n \in 0..MaxInput :
          LET input == Input(Fed, n)
              done == AudioProcessor_process(processor[1], input)
          IN  /\ processor' = Some(done.self)
              /\ calls' = Append(calls, [input |-> input, pre |-> processor[1],
                                         post |-> done.self, result |-> done.result])
    /\ mix' = None
    /\ UNCHANGED <<twin, twin_results>>
    /\ UNCHANGED <<evars, xvars>>

\* The twin is given the next input the processor was given.
twin_process ==
    /\ twin # None
    /\ Len(twin_results) < Len(calls)
    /\ LET done == AudioProcessor_process(twin[1], calls[Len(twin_results) + 1].input)
       IN  /\ twin' = Some(done.self)
           /\ twin_results' = Append(twin_results, done.result)
    /\ mix' = None
    /\ UNCHANGED <<processor, calls>>
    /\ UNCHANGED <<evars, xvars>>

\* downmix_to_mono called on its own, as the unit tests do; it divides by
\* input_channels, so a processor of no channel is left out.  It reads the
\* processor without changing it, so one call is followed from each state.
proc_downmix ==
    /\ processor # None
    /\ calls = <<>>
    /\ mix = None
    /\ processor[1].input_channels >= 1
    /\ \E interleaved \in Buffers :
          mix' = Some([interleaved |-> interleaved,
                       mono |-> downmix_to_mono(processor[1], interleaved)])
    /\ UNCHANGED <<processor, twin, calls, twin_results>>
    /\ UNCHANGED <<evars, xvars>>

ProcNext ==
    \/ proc_new
    \/ twin_new
    \/ proc_process
    \/ twin_process
    \/ proc_downmix

ProcSpec == Init /\ [][ProcNext]_vars

(***************************************************************************)
(* Claims about the AudioProcessor.                                        *)
(***************************************************************************)
\* A processor has a resampling filter exactly when its rate is not 16000.
FilterIffRateDiffers(p) ==
    (p.resampler # None) <=> (p.input_sample_rate # 16000)

\* C15: for every AudioProcessor, after construction and after any sequence
\* of process calls, a resampling filter is present if and only if
\* input_sample_rate differs from 16000.
C15_FilterIffRateDiffers ==
    /\ processor # None => FilterIffRateDiffers(processor[1])
    /\ twin # None => FilterIffRateDiffers(twin[1])
    /\ \A k \in 1..Len(calls) :
          /\ FilterIffRateDiffers(calls[k].pre)
          /\ FilterIffRateDiffers(calls[k].post)

\* A processor of 8000 Hz still has its filter after two process calls, one
\* that resampled and one that failed.
C15_Witness ==
    /\ Len(calls) = 2
    /\ processor[1].input_sample_rate = 8000
    /\ processor[1].resampler # None
    /\ calls[1].result.status = "Ok" /\ calls[1].result.out # <<>>
    /\ calls[2].result.status = "Err"

\* C16: for any valid processor configuration, process on an empty input
\* returns an empty output without error and leaves the processor, filter
\* history included, unchanged, so that a later process call behaves as if
\* the empty call had not happened.
C16_EmptyInputIsNoOp ==
    \A k \in 1..Len(calls) :
        calls[k].input = <<>> =>
            /\ calls[k].result = [status |-> "Ok", err |-> "", out |-> <<>>]
            /\ calls[k].post = calls[k].pre
            /\ k < Len(calls) =>
                  /\ calls[k + 1].pre = calls[k].pre
                  /\ calls[k + 1].result =
                        AudioProcessor_process(calls[k].pre, calls[k + 1].input).result

\* An empty call between two calls that resampled, on a filter whose history
\* the first call has changed.
C16_Witness ==
    /\ Len(calls) = 3
    /\ calls[1].result.status = "Ok" /\ calls[1].result.out # <<>>
    /\ calls[1].post # calls[1].pre
    /\ calls[2].input = <<>>
    /\ calls[2].pre.resampler # None
    /\ calls[3].result.status = "Ok" /\ calls[3].result.out # <<>>

\* C17: a processor built with input_channel_count = 1 and
\* input_sample_rate = 16000 returns exactly x from process(x) for every
\* non-empty x, on every call in any sequence of calls.
C17_Identity ==
    \A k \in 1..Len(calls) :
        (/\ calls[k].pre.input_channels = 1
         /\ calls[k].pre.input_sample_rate = 16000
         /\ calls[k].input # <<>>) =>
            calls[k].result = [status |-> "Ok", err |-> "", out |-> calls[k].input]

\* Three calls on such a processor, with inputs shorter than, as long as and
\* longer than a resampler chunk.
C17_Witness ==
    /\ Len(calls) = 3
    /\ processor[1].input_channels = 1
    /\ processor[1].input_sample_rate = 16000
    /\ Len(calls[1].input) = 1
    /\ Len(calls[2].input) = CHUNK_SIZE
    /\ Len(calls[3].input) > CHUNK_SIZE
    /\ calls[3].result.out = calls[3].input

\* The sum of the n samples of frame i (from 0) of an interleaved buffer,
\* added from sample j of the frame on.
RECURSIVE FrameSum(_, _, _, _)
FrameSum(b, i, n, j) ==
    IF j >= n THEN 0 ELSE b[i * n + j + 1] + FrameSum(b, i, n, j + 1)

\* C18: for every channel count n >= 1 and every interleaved buffer, downmix
\* returns floor(length / n) samples, output sample i is the arithmetic mean
\* of input samples i*n .. i*n+n-1, and a trailing partial frame is discarded
\* without an error.
C18_Downmix ==
    mix # None =>
        LET n == processor[1].input_channels
            b == mix[1].interleaved
            out == mix[1].mono
        IN  /\ n >= 1
            /\ Len(out) * n <= Len(b)
            /\ Len(b) < (Len(out) + 1) * n
            /\ \A i \in 0..(Len(out) - 1) :
                  /\ out[i + 1].den = n
                  /\ out[i + 1].num = FrameSum(b, i, n, 0)

\* A buffer of two whole stereo frames of different means and a trailing
\* sample.
C18_Witness ==
    /\ mix # None
    /\ processor[1].input_channels = 2
    /\ mix[1].interleaved = <<2, 0, -1, -1, 2>>
    /\ mix[1].mono = <<[num |-> 2, den |-> 2], [num |-> -2, den |-> 2]>>

FailedOnParameters(c) ==
    /\ c.result.status = "Err"
    /\ c.result.err = "Resampling failed: wrong number of input channels"

\* C20: a configuration the resampler cannot support is reported by
\* AudioProcessor::new as an error; if new returns Ok, no later process call
\* fails because of the construction parameters (rate ratio or channel
\* count), for any non-empty input.  Stated for the processors of at least
\* one channel, where it already fails.
C20_NoDeferredFailure ==
    \A k \in 1..Len(calls) :
        (calls[k].pre.input_channels >= 1 /\ calls[k].input # <<>>) =>
            ~FailedOnParameters(calls[k])

\* C21: for a processor built with input_channel_count > 1 and
\* input_sample_rate different from 16000, process on an input holding at
\* least one complete frame downmixes to mono and feeds that single mono
\* sequence through the resampling filter, returning Ok with single-channel
\* output; the filter accepts the one-channel sequence it is given.
C21_DownmixThenResample ==
    \A k \in 1..Len(calls) :
        (/\ calls[k].pre.input_channels > 1
         /\ calls[k].pre.input_sample_rate # 16000
         /\ Len(calls[k].input) >= calls[k].pre.input_channels) =>
            /\ calls[k].result.status = "Ok"
            /\ ~FailedOnParameters(calls[k])

\* A call on a mono processor of a rate above 16000 with an input of at
\* least one filter chunk.
MonoDownsampling(c) ==
    /\ c.pre.input_channels = 1
    /\ c.pre.input_sample_rate > 16000
    /\ Len(c.input) >= CHUNK_SIZE

StatsAsClaimed ==
    (stats # None /\ config # None) =>
        LET s == stats[1].value
            n == Len(stats[1].samples)
        IN  /\ s.sample_count = n
            /\ s.sample_rate = config[1].sample_rate
            /\ s.channels = config[1].channels
            /\ s.duration.num * (config[1].sample_rate * config[1].channels)
                  = n * s.duration.den

\* A step in which get_stats returned.
GetStatsStep == stats' # None /\ stats' # stats

\* C23: get_stats(samples) modifies nothing in the engine and depends only
\* on the negotiated config and the sample count: it returns sample_count =
\* length of samples, the negotiated sample_rate and channel_count, and
\* duration = sample_count / (sample_rate * channel_count) seconds.
C23_StatsPure ==
    /\ []StatsAsClaimed
    /\ [][GetStatsStep =>
            UNCHANGED <<device, config, stream, ring_buffer, pc, new_stream,
                        live, delivered, dropped, call>>]_vars

\* Stats of two samples under a negotiated stereo config.
C23_Witness ==
    /\ stats # None
    /\ config = Some([sample_rate |-> 96000, channels |-> 2])
    /\ stats[1].value.sample_count = 2
    /\ stats[1].value.duration = [num |-> 2, den |-> 192000]

\* C24: every successfully constructed AudioProcessor and every negotiated
\* config has channel_count >= 1 and sample_rate >= 1.  For the processor it
\* is stated for those built without a filter, where it already fails.
C24_PositiveParameters ==
    /\ (processor # None /\ processor[1].resampler = None) =>
          /\ processor[1].input_channels >= 1
          /\ processor[1].input_sample_rate >= 1
    /\ config # None =>
          /\ config[1].channels >= 1
          /\ config[1].sample_rate >= 1

(***************************************************************************)
(* ToggleCommand::run (src/src/cli/mod.rs): one capture session.  Each `?` *)
(* of run is a guard of the next step: the step is taken only when the     *)
(* call before it returned Ok.                                             *)
(***************************************************************************)
\* What the transcription collaborators can answer once there are samples.
TranscriptionOutcomes ==
    {"no model found", "model load fails", "transcribe fails", "transcribed"}

\* run has not returned.
InSession == session = None

run_select_device ==
    /\ InSession
    /\ call.op = "new"
    /\ select_device

run_configure_stream ==
    /\ InSession
    /\ call.op = "select_device" /\ call.status = "Ok"
    /\ configure_stream

run_start_capture ==
    /\ InSession
    /\ call.op = "configure_stream" /\ call.status = "Ok"
    /\ start_capture

run_start_capture_store ==
    /\ InSession
    /\ start_capture_store

\* The realtime thread, while run is on its way.
run_data_callback ==
    /\ InSession
    /\ data_callback

\* io::stdin().read_line fails: run returns the error and the engine is
\* dropped with its stream.
run_read_line_fails ==
    /\ InSession
    /\ pc = "idle"
    /\ call.op = "start_capture" /\ call.status = "Ok"
    /\ session' = Some([outcome |-> "Err", err |-> "Failed to read input",
                        ran |-> <<>>, raw_samples |-> <<>>,
                        transcribed |-> None])
    /\ stream' = None
    /\ ring_buffer' = None
    /\ live' = {}
    /\ UNCHANGED <<device, config, pc, new_stream, delivered, dropped, cb,
                   debug_enabled, call, stats>>
    /\ UNCHANGED <<pvars, cvars, ovars>>

run_stop_capture ==
    /\ InSession
    /\ call.op = "start_capture" /\ call.status = "Ok"
    /\ stop_capture

run_stop_capture_drain ==
    /\ InSession
    /\ stop_capture_drain

\* The rest of run once stop_capture has returned its samples: get_stats,
\* AudioProcessor::new, process, and the transcription.
run_finish ==
    /\ InSession
    /\ pc = "idle"
    /\ call.op = "stop_capture" /\ call.status = "Ok"
    /\ LET raw_samples == call.samples
           ended(outcome, err, ran, transcribed) ==
               session' = Some([outcome |-> outcome, err |-> err, ran |-> ran,
                                raw_samples |-> raw_samples,
                                transcribed |-> transcribed])
       IN  IF raw_samples = <<>>
           THEN ended("No audio captured", "", <<>>, None)
           ELSE LET raw_stats == AudioStats(config, raw_samples)
                    made == AudioProcessor_new(raw_stats.sample_rate,
                                               raw_stats.channels)
                IN  IF made.status = "Err"
                    THEN ended("Err", made.err, <<"get_stats">>, None)
                    ELSE LET done == AudioProcessor_process(made.value, raw_samples)
                             processed_samples == done.result.out
                         IN  IF done.result.status = "Err"
                             THEN ended("Err", done.result.err,
                                        <<"get_stats", "process">>, None)
                             ELSE IF processed_samples = <<>>
                             THEN ended("No processed audio available for transcription",
                                        "", <<"get_stats", "process">>, None)
                             ELSE \E answer \in TranscriptionOutcomes :
                                     IF answer \in {"no model found", "model load fails"}
                                     THEN ended("Err", answer,
                                                <<"get_stats", "process">>, None)
                                     ELSE ended(IF answer = "transcribed"
                                                THEN "Ok" ELSE "Err",
                                                IF answer = "transcribed"
                                                THEN "" ELSE answer,
                                                <<"get_stats", "process", "transcribe">>,
                                                Some(processed_samples))
    /\ UNCHANGED <<evars, pvars, cvars, ovars>>

ToggleNext ==
    \/ run_select_device
    \/ run_configure_stream
    \/ run_start_capture
    \/ run_start_capture_store
    \/ run_data_callback
    \/ run_read_line_fails
    \/ run_stop_capture
    \/ run_stop_capture_drain
    \/ run_finish

ToggleSpec == Init /\ [][ToggleNext]_vars

\* A step in which the control thread enters the call op.
Enters(op) == call'.op = op /\ call.op # op

\* The steps of a session come in order, each after the success of the one
\* before it.
InOrder ==
    /\ Enters("select_device") => call.op = "new"
    /\ Enters("configure_stream") =>
          call.op = "select_device" /\ call.status = "Ok"
    /\ Enters("start_capture") =>
          call.op = "configure_stream" /\ call.status = "Ok"
    /\ Enters("stop_capture") =>
          call.op = "start_capture" /\ call.status = "Ok"
    /\ (session' # session /\ session'[1].ran # <<>>) =>
          /\ call.op = "stop_capture" /\ call.status = "Ok"
          /\ session'[1].ran \in {<<"get_stats">>, <<"get_stats", "process">>,
                                   <<"get_stats", "process", "transcribe">>}

\* A session that met no error and in which the callback was handed samples
\* has passed its processed samples to the transcription.
DeliveredAreTranscribed ==
    (/\ session # None
     /\ session[1].outcome # "Err"
     /\ delivered # <<>>) =>
        session[1].transcribed # None

\* C25: a toggle session performs its steps strictly in the order
\* select_device, configure_stream, start_capture, stop_capture, process,
\* transcribe; a step runs only if every earlier step succeeded, and a
\* session in which the callback delivered at least one sample passes the
\* processed mono 16 kHz samples to the transcription step.
C25_ToggleSession ==
    /\ [][InOrder]_vars
    /\ []DeliveredAreTranscribed

(***************************************************************************)
(* Config::write_default_to_path (src/src/config/mod.rs) and the file      *)
(* system it writes to.                                                    *)
(***************************************************************************)
ConfigPaths == DOMAIN files

\* toml::to_string_pretty(&Config::default()).
DefaultContent == "default config"

\* What a file written by somebody else holds.
ExistingContent == "existing content"

\* What the file system does to the calls that change it.
FsAnswers == {"ok", "create_dir_all fails", "write fails before truncating",
              "write fails after truncating"}

ConfigErr(msg, fs, ds) ==
    [status |-> "Err", err |-> msg, value |-> "", files |-> fs, dirs |-> ds]

\* A write_default_to_path that overwrites only a file that does not exist.
WriteDefaultToPath_never_overwrites(fs, ds, path, force, answer) ==
    IF fs[path] # None
    THEN ConfigErr("Config file already exists at " \o path
                   \o ". Use --force to overwrite.", fs, ds)
    ELSE [status |-> "Ok", err |-> "", value |-> path,
          files |-> [fs EXCEPT ![path] = Some(DefaultContent)],
          dirs |-> ds \cup {path}]

\* The result of the call and the file system after it.
WriteDefaultToPath(fs, ds, path, force, answer) ==
    IF fs[path] # None /\ ~force
    THEN ConfigErr("Config file already exists at " \o path
                   \o ". Use --force to overwrite.", fs, ds)
    ELSE IF path \notin ds /\ answer = "create_dir_all fails"
    THEN ConfigErr("Failed to create config directory", fs, ds)
    ELSE IF answer = "write fails before truncating"
    THEN ConfigErr("Failed to write config file", fs, ds \cup {path})
    ELSE IF answer = "write fails after truncating"
    THEN ConfigErr("Failed to write config file",
                   [fs EXCEPT ![path] = Some("")], ds \cup {path})
    ELSE [status |-> "Ok", err |-> "", value |-> path,
          files |-> [fs EXCEPT ![path] = Some(DefaultContent)],
          dirs |-> ds \cup {path}]

write_default_to_path ==
    /\ \E path \in ConfigPaths, force \in BOOLEAN, answer \in FsAnswers :
          LET r == WriteDefaultToPath(files, dirs, path, force, answer)
          IN  /\ files' = r.files
              /\ dirs' = r.dirs
              /\ write_call' = Some([path |-> path, force |-> force,
                                     answer |-> answer, pre |-> files,
                                     status |-> r.status, err |-> r.err,
                                     value |-> r.value])
    /\ UNCHANGED <<evars, pvars, session, ovars>>

\* Somebody else writes a file, as the tests do before the call.
fs_write ==
    /\ \E path \in ConfigPaths :
          /\ files' = [files EXCEPT ![path] = Some(ExistingContent)]
          /\ dirs' = dirs \cup {path}
    /\ write_call' = None
    /\ UNCHANGED <<evars, pvars, session, ovars>>

\* Somebody else removes a file.
fs_remove ==
    /\ \E path \in ConfigPaths :
          /\ files[path] # None
          /\ files' = [files EXCEPT ![path] = None]
    /\ write_call' = None
    /\ UNCHANGED <<evars, pvars, session, dirs, ovars>>

ConfigNext ==
    \/ write_default_to_path
    \/ fs_write
    \/ fs_remove

ConfigSpec == Init /\ [][ConfigNext]_vars

\* The call's path held a file when the call was made.
Existed(c) == c.pre[c.path] # None

\* The call refused to overwrite: a Config error that says so, the files as
\* they were.
Refused(c) ==
    /\ c.status = "Err"
    /\ c.err = "Config file already exists at " \o c.path
                 \o ". Use --force to overwrite."
    /\ files = c.pre

\* The call wrote the default configuration to its path, returned the path
\* and touched no other file.
Wrote(c) ==
    /\ c.status = "Ok"
    /\ c.value = c.path
    /\ files = [c.pre EXCEPT ![c.path] = Some("default config")]

\* C26 as stated: write_default_to_path(path, force = false) on a path that
\* already exists returns a Config error saying the file already exists and
\* leaves the file's content unchanged; with force = true, or when the file
\* does not exist, it writes the default configuration and returns the path.
C26_Original ==
    write_call # None =>
        LET c == write_call[1]
        IN  IF Existed(c) /\ ~c.force THEN Refused(c) ELSE Wrote(c)

\* C26: the same, except that with force = true, or when the file does not
\* exist, the call returns a Config error when creating the parent directory
\* or writing the file fails; a failed creation of the directory leaves the
\* files unchanged, a failed write leaves every other file unchanged.
C26_WriteDefault ==
    write_call # None =>
        LET c == write_call[1]
        IN  IF Existed(c) /\ ~c.force THEN Refused(c)
            ELSE IF c.answer = "ok" THEN Wrote(c)
            ELSE \/ Wrote(c)
                 \/ /\ c.status = "Err"
                    /\ c.err = "Failed to create config directory"
                    /\ files = c.pre
                 \/ /\ c.status = "Err"
                    /\ c.err = "Failed to write config file"
                    /\ \A path \in ConfigPaths \ {c.path} : files[path] = c.pre[path]

\* A forced call has replaced another's file by the default configuration,
\* while the other path holds a file untouched.
C26_Witness ==
    /\ write_call # None
    /\ write_call[1].force
    /\ write_call[1].pre[write_call[1].path] = Some("existing content")
    /\ write_call[1].status = "Ok"
    /\ files[write_call[1].path] = Some("default config")
    /\ \E path \in ConfigPaths \ {write_call[1].path} :
          files[path] = Some("existing content")

\* The capture buffer holds no more samples than its capacity.
WithinCapacity ==
    ring_buffer # None => Len(ring_buffer[1]) <= RING_BUFFER_SIZE

\* The samples stop_capture returned were delivered since the last
\* start_capture allocated its buffer.
StopReturnsOwnSession ==
    (Returned("stop_capture") /\ call.status = "Ok") =>
        \A i \in 1..Len(call.samples) :
            \E j \in 1..Len(delivered) : delivered[j] = call.samples[i]

\* A buffer the engine comes to hold is empty, and so is the one it holds
\* when start_capture returns Ok.
StartsEmpty ==
    /\ (ring_buffer' # ring_buffer /\ ring_buffer' # None) =>
          ring_buffer' = Some(<<>>)
    /\ (call' # call /\ call'.op = "start_capture" /\ call'.status = "Ok") =>
          ring_buffer' = Some(<<>>)

Taps(out) == UNION {{o.taps[i] : i \in 1..Len(o.taps)} : o \in {out[j] : j \in 1..Len(out)}}

\* The samples the filter keeps for its next call.
Retained(p) ==
    UNION {{p.resampler[1].history[ch][i] :
               i \in 1..Len(p.resampler[1].history[ch])} :
           ch \in 1..Len(p.resampler[1].history)}

\* C28: when a resampling filter is present, process never silently
\* discards complete input frames: for any non-empty input, shorter or
\* longer than the filter's chunk, every mono frame is either reflected in
\* the returned output or retained in the filter state for the next call,
\* and the call does not fail merely because of the input's length.  Stated
\* for mono processors, whose filter accepts the channel it is given.
C28_NoSilentDiscard ==
    \A k \in 1..Len(calls) :
        (/\ calls[k].pre.resampler # None
         /\ calls[k].pre.input_channels = 1
         /\ calls[k].input # <<>>) =>
            /\ calls[k].result.status = "Ok"
            /\ \A i \in 1..Len(calls[k].input) :
                  calls[k].input[i] \in Taps(calls[k].result.out)
                                          \cup Retained(calls[k].post)

(***************************************************************************)
(* Further claims about the AudioEngine's device and config.               *)
(***************************************************************************)
\* The config configure_stream negotiates from device d, when there is one.
NegotiatedFrom(d) ==
    LET configs == SupportedConfigs(d)
    IN  IF Suitable(configs) = {} THEN None
        ELSE Some([sample_rate |-> configs[BestIndex(configs)].max_sample_rate,
                   channels |-> configs[BestIndex(configs)].channels])

\* C29: whenever the engine holds both a selected device and a negotiated
\* config, that config was negotiated from the currently selected device:
\* after select_device is called again following configure_stream,
\* start_capture cannot open the new device with the config negotiated for
\* the previous device.
C29_ConfigOfSelectedDevice ==
    /\ (device # None /\ config # None) => config = NegotiatedFrom(device[1])
    /\ (call.op = "start_capture" /\ call.status \in {"running", "Ok"}) =>
          call.pre.config = NegotiatedFrom(call.pre.device[1])

(***************************************************************************)
(* OutputManager::simulate_paste (src/src/output/mod.rs) and the platform  *)
(* whose keys it presses.                                                  *)
(***************************************************************************)
\* The texts pasted.
Texts == {"hello", "world"}

\* The key events of Ctrl+Shift+V, in the order of the calls.
KeyEvents ==
    << [key |-> "Control", direction |-> "Press"],
       [key |-> "Shift", direction |-> "Press"],
       [key |-> "v", direction |-> "Click"],
       [key |-> "Shift", direction |-> "Release"],
       [key |-> "Control", direction |-> "Release"] >>

\* The keys held once the platform has carried out the event.
AfterKey(down, event) ==
    CASE event.direction = "Press" -> down \cup {event.key}
      [] event.direction = "Release" -> down \ {event.key}
      [] OTHER -> down

\* enigo.key(..)? for the events from the i-th on; the event numbered
\* fail_at fails, with no effect, and ends the sequence.
RECURSIVE KeySequence(_, _, _, _)
KeySequence(events, i, fail_at, down) ==
    IF i > Len(events) THEN [status |-> "Ok", err |-> "", keys_down |-> down]
    ELSE IF i = fail_at
    THEN [status |-> "Err", err |-> "Key press failed", keys_down |-> down]
    ELSE KeySequence(events, i + 1, fail_at, AfterKey(down, events[i]))

PasteErr(msg, down, clip) ==
    [status |-> "Err", err |-> msg, keys_down |-> down, clipboard_text |-> clip]

\* The result of simulate_paste, the keys held and the clipboard after it;
\* fail_at = 0 is a clipboard that refuses the text.
SimulatePaste(self, text, fail_at, down, clip) ==
    IF ~self.clipboard
    THEN PasteErr("Clipboard not available for paste simulation", down, clip)
    ELSE IF fail_at = 0
    THEN PasteErr("Clipboard error", down, clip)
    ELSE IF ~self.enigo
    THEN PasteErr("Input simulation not available on this platform",
                  down, Some(text))
    ELSE LET keys == KeySequence(KeyEvents, 1, fail_at, down)
         IN  [status |-> keys.status, err |-> keys.err,
              keys_down |-> keys.keys_down, clipboard_text |-> Some(text)]

\* OutputManager::new: the platform may lack a clipboard or input simulation.
output_new ==
    /\ manager = None
    /\ \E clipboard \in BOOLEAN, enigo \in BOOLEAN :
          manager' = Some([clipboard |-> clipboard, enigo |-> enigo])
    /\ UNCHANGED <<keys_down, clipboard_text, paste_call>>
    /\ UNCHANGED <<evars, pvars, session, cvars>>

simulate_paste ==
    /\ manager # None
    /\ \E text \in Texts, fail_at \in 0..(Len(KeyEvents) + 1) :
          LET r == SimulatePaste(manager[1], text, fail_at, keys_down,
                                 clipboard_text)
          IN  /\ keys_down' = r.keys_down
              /\ clipboard_text' = r.clipboard_text
              /\ paste_call' = Some([text |-> text, fail_at |-> fail_at,
                                     pre_keys_down |-> keys_down,
                                     status |-> r.status, err |-> r.err])
    /\ UNCHANGED manager
    /\ UNCHANGED <<evars, pvars, session, cvars>>

OutputNext ==
    \/ output_new
    \/ simulate_paste

OutputSpec == Init /\ [][OutputNext]_vars

\* C30: simulate_paste never leaves a modifier key held down: on every
\* return path, success or an error from any key event, each of Control and
\* Shift that was pressed during the call has been released before the call
\* returns.
C30_ModifiersReleased ==
    paste_call # None =>
        keys_down \cap {"Control", "Shift"} \subseteq paste_call[1].pre_keys_down

====
